---- MODULE Spec2Model ----
(***************************************************************************)
(* A model of redis_cache/rediscache.py: SimpleCache, a bounded,           *)
(* namespaced cache kept in a Redis keyspace, and the two memoization      *)
(* decorators cache_it and cache_it_json built on it.                      *)
(*                                                                         *)
(* Spec, SpecNS, SpecMemo and SpecPair run each operation to its end in    *)
(* one step; SpecCon and SpecFair run the operations of concurrent clients *)
(* one Redis command at a time.                                            *)
(*                                                                         *)
(* Strings are TLA+ strings and "{0}:{1}".format(..) is \o, so two         *)
(* namespaces whose formatted names overlap really do name the same Redis  *)
(* key.  Python values are records [t |-> type, r |-> text of the value].  *)
(***************************************************************************)
EXTENDS Integers, Sequences, FiniteSets, TLC

\* ------------------------------------------------------------------ bounds
\* capacities (SimpleCache.limit) are drawn from 1..MaxLimit
MaxLimit == 2
\* the wrapped function is invoked at most MaxCalls times in one behaviour
MaxCalls == 2

\* ----------------------------------------------------------- Python values
PyStr(s) == [t |-> "str", r |-> s]
PyUni(s) == [t |-> "unicode", r |-> s]
PyInt(s) == [t |-> "int", r |-> s]
PyTuple(s) == [t |-> "tuple", r |-> s]
PyList(s) == [t |-> "list", r |-> s]
None == [t |-> "NoneType", r |-> "None"]

\* basestring: str and unicode
IsString(x) == x.t \in {"str", "unicode"}

\* Python 2 ==: a str and a unicode of the same (ASCII) text are equal; values
\* of different types otherwise are not (a tuple never equals a list).
PyEq(x, y) == \/ x = y
              \/ IsString(x) /\ IsString(y) /\ x.r = y.r

\* bool(x), as "if key:" takes it: the empty string, 0 and None are false.
Truthy(x) == CASE IsString(x) -> x.r # ""
               [] x.t = "int" -> x.r # "0"
               [] x.t = "NoneType" -> FALSE
               [] x.t \in {"tuple", "list"} -> x.r # ""
               [] OTHER -> TRUE

\* "{0}".format(x) and the Redis client's encoding of a key, a value or a set
\* member on the wire: the text of the value, whatever its type.
Format(x) == x.r

to_unicode(obj) == IF IsString(obj) THEN PyUni(obj.r) ELSE obj

\* ---------------------------------------------------------- the Redis store
\* The keyspace is a function from the names present to what they hold: a
\* string (an entry written by SETEX, which lives until its TTL lapses) or a
\* set of member texts.  A name that is absent is not in the domain.
StringRec(v) == [type |-> "string", val |-> v, members |-> {}]
SetRec(S) == [type |-> "set", val |-> "", members |-> S]

Exists(d, n) == n \in DOMAIN d
HoldsString(d, n) == Exists(d, n) /\ d[n].type = "string"
HoldsSet(d, n) == Exists(d, n) /\ d[n].type = "set"

Put(d, n, rec) == [x \in (DOMAIN d) \cup {n} |-> IF x = n THEN rec ELSE d[x]]
\* DEL, and EXPIRE name 0
Delete(d, n) == [x \in (DOMAIN d) \ {n} |-> d[x]]
\* SETEX overwrites whatever the name held, of any type
Setex(d, n, v) == Put(d, n, StringRec(v))
\* the members of a set; an absent name is the empty set
Members(d, n) == IF HoldsSet(d, n) THEN d[n].members ELSE {}
\* a set command on a name that holds a string is refused (WRONGTYPE)
WrongTypeForSet(d, n) == HoldsString(d, n)
\* a string command on a name that holds a set is refused (WRONGTYPE)
WrongTypeForString(d, n) == HoldsSet(d, n)
Sadd(d, n, m) == Put(d, n, SetRec(Members(d, n) \cup {m}))
\* SREM and SPOP: a set that loses its last member is removed
RemoveMember(d, n, m) ==
    IF Members(d, n) \ {m} = {} THEN Delete(d, n)
    ELSE Put(d, n, SetRec(Members(d, n) \ {m}))

\* ---------------------------------------------------------------- outcomes
Return(v) == [kind |-> "return", exc |-> "", v |-> v, n |-> 0, e |-> 0]
Raise(x) == [kind |-> "raise", exc |-> x, v |-> None, n |-> 0, e |-> 0]
\* an integer answer (__len__), and the pair expire_all_in_set returns
ReturnInt(n) ==
    [kind |-> "return", exc |-> "", v |-> PyInt(ToString(n)), n |-> n, e |-> 0]
ReturnPair(n, e) ==
    [kind |-> "return", exc |-> "", v |-> PyTuple(ToString(n) \o ", " \o ToString(e)),
     n |-> n, e |-> e]
CacheMissException == Raise("CacheMissException")
ExpiredKeyException == Raise("ExpiredKeyException")
\* self.connection is None: None has no attribute scard, get, ...
AttributeError == Raise("AttributeError")
\* an error answered or raised by the Redis client
RedisError == Raise("RedisError")

\* ------------------------------------------------------------- SimpleCache
VARIABLES
    db,      \* the Redis keyspace shared by every cache
    cache,   \* cache id -> the SimpleCache object's fields
    calls,   \* how many times the wrapped function has been invoked
    last,    \* the operation completed last, with its arguments and outcome
    stored,  \* history: the <<cache, key text>> that a store has written
    fresh,   \* history: those written since the cache's last flush
    computed, \* history: the <<wrapper, argument>> the function was invoked for
    proc     \* client -> where it is in the operation it is running, its locals

vars == <<db, cache, calls, last, stored, fresh, computed, proc>>

\* SimpleCache.__init__: limit, unique (the namespace), hashkeys, and the
\* connection, which is None when RedisConnect.connect raised
SimpleCache(limit, namespace, hashkeys, reachable) ==
    [limit |-> limit, unique |-> namespace, hashkeys |-> hashkeys,
     connection |-> reachable]

make_key(cc, key) == Format(cc.unique) \o ":" \o Format(key)

get_set_name(cc) == Format(cc.unique) \o "-keys"

\* ------------------------------------------------------- store (lines 91-106)
\* The eviction loop: while scard(set_name) >= limit, spop a member (any one,
\* the store chooses) and delete its entry.  The set of keyspaces the loop can
\* end in; ok is FALSE when scard is refused.
\* (a loop that lets the Key Set reach limit + 1 before it evicts)
AtCapacity_Strict(d, cc) == Cardinality(Members(d, get_set_name(cc))) > cc.limit

\* (a loop that starts to evict one key before the Key Set is full)
AtCapacity_Early(d, cc) == Cardinality(Members(d, get_set_name(cc))) >= cc.limit - 1

\* the loop's condition, scard(set_name) >= self.limit
AtCapacity(d, cc) == Cardinality(Members(d, get_set_name(cc))) >= cc.limit

RECURSIVE EvictFrom(_, _, _)
EvictFrom(d, cc, popped) ==
    LET set_name == get_set_name(cc) IN
    IF WrongTypeForSet(d, set_name) THEN {[db |-> d, ok |-> FALSE, popped |-> popped]}
    ELSE IF AtCapacity(d, cc)
    THEN UNION { EvictFrom(Delete(RemoveMember(d, set_name, del_key),
                                  make_key(cc, PyStr(del_key))),
                           cc, Append(popped, del_key)) :
                 del_key \in Members(d, set_name) }
    ELSE {[db |-> d, ok |-> TRUE, popped |-> popped]}

EvictLoop(d, cc) == EvictFrom(d, cc, <<>>)

\* The pipeline of store: setex(make_key(key), expire, value), sadd(set_name,
\* key), execute.  A refused sadd does not undo the setex.
StorePipeline(d, cc, key, value) ==
    LET d1 == Setex(d, make_key(cc, key), Format(value)) IN
    IF WrongTypeForSet(d1, get_set_name(cc))
    THEN [db |-> d1, out |-> RedisError]
    ELSE [db |-> Sadd(d1, get_set_name(cc), Format(key)), out |-> Return(None)]

NotPopped(d, out) == [db |-> d, out |-> out, popped |-> <<>>]

\* (a store that looks whether the key is resident and, if it is, only
\* rewrites it without evicting)
store_results_SkipsResident(d, cc, key, value, fault) ==
    IF ~cc.connection THEN {NotPopped(d, AttributeError)}
    ELSE IF Format(key) \in Members(d, get_set_name(cc))
    THEN { LET w == StorePipeline(d, cc, to_unicode(key), to_unicode(value))
           IN NotPopped(w.db, w.out) }
    ELSE { LET w == StorePipeline(r.db, cc, to_unicode(key), to_unicode(value))
           IN [db |-> w.db, out |-> w.out, popped |-> r.popped] :
           r \in EvictLoop(d, cc) }

\* Every (keyspace, outcome) store(key, value) can end in.  fault names the
\* Redis command, if any, that the store fails to answer during this call.
store_results(d, cc, key, value, fault) ==
    IF ~cc.connection THEN {NotPopped(d, AttributeError)}
    ELSE IF fault = "scard" THEN {NotPopped(d, RedisError)}
    ELSE { LET w == IF r.ok
                    THEN StorePipeline(r.db, cc, to_unicode(key), to_unicode(value))
                    ELSE [db |-> r.db, out |-> RedisError]
           IN [db |-> w.db, out |-> w.out, popped |-> r.popped] :
           r \in EvictLoop(d, cc) }

\* ------------------------------------------- __contains__ (lines 159-165)
contains_result(d, cc, key, fault) ==
    IF ~cc.connection THEN AttributeError
    ELSE IF fault = "sismember" \/ WrongTypeForSet(d, get_set_name(cc)) THEN RedisError
    ELSE IF Format(key) \in Members(d, get_set_name(cc)) THEN Return(PyInt("1"))
    ELSE Return(PyInt("0"))

\* --------------------------------------------------- get (lines 140-151)
\* "if key:" guards the whole body: a false key falls off the end of the
\* function, which returns None.
get_truthy(d, cc, key, fault) ==
    LET name == make_key(cc, key)
        member == contains_result(d, cc, key, fault) IN
    IF ~cc.connection THEN [db |-> d, out |-> AttributeError]
    ELSE IF fault = "get" \/ WrongTypeForString(d, name)
    THEN [db |-> d, out |-> RedisError]
    ELSE IF Exists(d, name) THEN [db |-> d, out |-> Return(PyStr(d[name].val))]
    ELSE IF member.kind = "raise" THEN [db |-> d, out |-> member]
    ELSE IF ~Truthy(member.v) THEN [db |-> d, out |-> CacheMissException]
    ELSE [db |-> RemoveMember(d, get_set_name(cc), Format(key)),
          out |-> ExpiredKeyException]

get_result(d, cc, key, fault) ==
    IF Truthy(to_unicode(key)) THEN get_truthy(d, cc, to_unicode(key), fault)
    ELSE [db |-> d, out |-> Return(None)]

\* --------------------------------------------------- __len__ (lines 187-191)
len_result(d, cc) ==
    IF ~cc.connection THEN AttributeError
    ELSE IF WrongTypeForSet(d, get_set_name(cc)) THEN RedisError
    ELSE ReturnInt(Cardinality(Members(d, get_set_name(cc))))

\* ------------------------------------------------- flush (lines 196-202)
RECURSIVE DeleteAll(_, _)
DeleteAll(d, names) ==
    IF names = {} THEN d
    ELSE LET n == CHOOSE x \in names : TRUE IN DeleteAll(Delete(d, n), names \ {n})

\* (a flush whose pipeline deletes the entries but not the Key Set)
flush_KeepsKeySet(d, cc) ==
    IF ~cc.connection THEN [db |-> d, out |-> AttributeError]
    ELSE [db |-> DeleteAll(d, { make_key(cc, PyStr(del_key)) :
                                del_key \in Members(d, get_set_name(cc)) }),
          out |-> Return(None)]

flush_result(d, cc) ==
    IF ~cc.connection THEN [db |-> d, out |-> AttributeError]
    ELSE IF WrongTypeForSet(d, get_set_name(cc)) THEN [db |-> d, out |-> RedisError]
    ELSE [db |-> Delete(DeleteAll(d, { make_key(cc, PyStr(del_key)) :
                                        del_key \in Members(d, get_set_name(cc)) }),
                        get_set_name(cc)),
          out |-> Return(None)]

\* ------------------------------------- expire_all_in_set (lines 108-123)
\* expire(name, 0) removes the name and answers 1 when it was there; the Key
\* Set is read before the loop and its cardinality again after it.
\* (a loop that counts every expire command it issues, answered 1 or 0)
expire_all_in_set_CountsIssued(d, cc) ==
    LET all_members == Members(d, get_set_name(cc))
        names == { make_key(cc, PyStr(member)) : member \in all_members }
        d1 == DeleteAll(d, names) IN
    IF ~cc.connection THEN [db |-> d, out |-> AttributeError]
    ELSE [db |-> d1, out |-> ReturnPair(Cardinality(Members(d1, get_set_name(cc))),
                                        Cardinality(names))]

expire_all_in_set_result(d, cc) ==
    LET all_members == Members(d, get_set_name(cc))
        names == { make_key(cc, PyStr(member)) : member \in all_members }
        d1 == DeleteAll(d, names)
        after == len_result(d1, cc) IN
    IF ~cc.connection THEN [db |-> d, out |-> AttributeError]
    ELSE IF WrongTypeForSet(d, get_set_name(cc)) THEN [db |-> d, out |-> RedisError]
    ELSE IF after.kind = "raise" THEN [db |-> d1, out |-> after]
    ELSE [db |-> d1,
          out |-> ReturnPair(after.n, Cardinality({ n \in names : Exists(d, n) }))]
\* ----------------------------------------------------------------- actions
\* What an operation leaves in last.  invoked: how many times the call ran
\* the wrapped function; ops: the cache operations the call made; popped: the
\* members the eviction loop popped, in order; failed: whether a Redis command
\* issued during the call failed.
Done(op, c, key, val, out, invoked, ops, popped) ==
    [op |-> op, c |-> c, key |-> key, val |-> val, out |-> out,
     invoked |-> invoked, ops |-> ops, popped |-> popped,
     failed |-> (out = RedisError)]

NoFault == "none"

\* the history of a store that returned
Written(c, key, out, S) ==
    IF out.kind = "return" THEN S \cup {<<c, Format(key)>>} ELSE S

store(c, key, value) ==
    \E r \in store_results(db, cache[c], key, value, NoFault) :
        /\ db' = r.db
        /\ last' = Done("store", c, key, value, r.out, 0, {"store"}, r.popped)
        /\ stored' = Written(c, key, r.out, stored)
        /\ fresh' = Written(c, key, r.out, fresh)
        /\ UNCHANGED <<cache, calls, computed, proc>>

get(c, key) ==
    LET r == get_result(db, cache[c], key, NoFault) IN
        /\ db' = r.db
        /\ last' = Done("get", c, key, None, r.out, 0, {"get"}, <<>>)
        /\ UNCHANGED <<cache, calls, stored, fresh, computed, proc>>

contains(c, key) ==
    /\ last' = Done("contains", c, key, None,
                    contains_result(db, cache[c], key, NoFault), 0, {"contains"}, <<>>)
    /\ UNCHANGED <<db, cache, calls, stored, fresh, computed, proc>>

len(c) ==
    /\ last' = Done("len", c, None, None, len_result(db, cache[c]), 0, {"len"}, <<>>)
    /\ UNCHANGED <<db, cache, calls, stored, fresh, computed, proc>>

flush(c) ==
    LET r == flush_result(db, cache[c]) IN
        /\ db' = r.db
        /\ last' = Done("flush", c, None, None, r.out, 0, {"flush"}, <<>>)
        /\ fresh' = IF r.out.kind = "return" THEN { p \in fresh : p[1] # c } ELSE fresh
        /\ UNCHANGED <<cache, calls, stored, computed, proc>>

expire_all_in_set(c) ==
    LET r == expire_all_in_set_result(db, cache[c]) IN
        /\ db' = r.db
        /\ last' = Done("expire_all_in_set", c, None, None, r.out, 0,
                        {"expire_all_in_set"}, <<>>)
        /\ UNCHANGED <<cache, calls, stored, fresh, computed, proc>>

\* The TTL given to setex (lines 102-104) runs out: Redis drops the entry.
\* The Key Set has no TTL.
Lapse(name) ==
    /\ HoldsString(db, name)
    /\ db' = Delete(db, name)
    /\ last' = Done("lapse", "", PyStr(name), None, Return(None), 0, {}, <<>>)
    /\ UNCHANGED <<cache, calls, stored, fresh, computed, proc>>

\* ------------------------------------------------ one cache, used directly
Keys == {PyStr(""), PyStr("a"), PyStr("b"), PyStr("c")}
Values == {PyStr("1"), PyUni("2")}
Nothing == Done("init", "", None, None, Return(None), 0, {}, <<>>)
EmptyDb == [x \in {} |-> StringRec("")]
\* the operations of these specifications run one at a time, each to its end
NoClients == [p \in {} |-> ""]

\* One SimpleCache(limit, namespace="n") has been constructed against an
\* empty store, which was reachable or not.
Init ==
    /\ db = EmptyDb
    /\ \E limit \in 1..MaxLimit, reachable \in BOOLEAN :
           cache = [c \in {"c1"} |-> SimpleCache(limit, PyStr("n"), FALSE, reachable)]
    /\ calls = 0
    /\ last = Nothing
    /\ stored = {}
    /\ fresh = {}
    /\ computed = {}
    /\ proc = NoClients

Next ==
    \/ \E c \in DOMAIN cache, key \in Keys, value \in Values : store(c, key, value)
    \/ \E c \in DOMAIN cache, key \in Keys : get(c, key)
    \/ \E c \in DOMAIN cache, key \in Keys : contains(c, key)
    \/ \E c \in DOMAIN cache : len(c)
    \/ \E c \in DOMAIN cache : flush(c)
    \/ \E c \in DOMAIN cache : expire_all_in_set(c)
    \/ \E name \in DOMAIN db : Lapse(name)

Spec == Init /\ [][Next]_vars

\* ---------------------------------------------------------------- readings
\* the Key Set of a cache, and whether a key has a Cache Entry
KeySet(d, c) == Members(d, get_set_name(cache[c]))
HasEntry(d, c, key) == HoldsString(d, make_key(cache[c], key))
Listed(d, c, key) == Format(key) \in KeySet(d, c)
Connected(c) == cache[c].connection
Returned(l) == l.out.kind = "return"

\* C1: for a cache with capacity >= 1 used by one client, when a store call
\* has completed the Key Set holds at most capacity keys.
C1_CapacityAfterStore ==
    (last.op = "store" /\ Returned(last)) =>
        Cardinality(KeySet(db, last.c)) <= cache[last.c].limit

\* a store that found the cache full, evicted, and left it exactly full
C1_Witness ==
    /\ last.op = "store" /\ Returned(last)
    /\ Len(last.popped) >= 1
    /\ cache[last.c].limit = 2
    /\ Cardinality(KeySet(db, last.c)) = 2
\* C2: on a connected cache, store(k, v) followed immediately by get(k)
\* returns a value equal to v, for every key k and value v.
C2_StoreThenGet ==
    [][(/\ last.op = "store" /\ Returned(last)
        /\ last'.op = "get" /\ last'.c = last.c /\ last'.key = last.key)
       => (Returned(last') /\ PyEq(last'.out.v, last.val))]_vars

\* C2 holds of every key that "if key:" lets through.
C2_StoreThenGet_TrueKeys ==
    [][(/\ last.op = "store" /\ Returned(last) /\ Truthy(last.key)
        /\ last'.op = "get" /\ last'.c = last.c /\ last'.key = last.key)
       => (Returned(last') /\ PyEq(last'.out.v, last.val))]_vars

\* What get must answer in keyspace d, by the three outcomes of the
\* specification: the stored text, CacheMiss, or ExpiredKey.
ThreeOutcomes(d, c, key) ==
    IF HasEntry(d, c, key) THEN Return(PyStr(d[make_key(cache[c], key)].val))
    ELSE IF Listed(d, c, key) THEN ExpiredKeyException
    ELSE CacheMissException

\* C3: for every key, the empty string included, get on a connected cache
\* returns the stored text when the entry is present, raises CacheMiss when
\* the entry is absent and the key is not in the Key Set, and raises
\* ExpiredKey when the entry is absent and the key is in the Key Set.
C3_GetOutcomes ==
    [][(last'.op = "get" /\ Connected(last'.c))
       => last'.out = ThreeOutcomes(db, last'.c, last'.key)]_vars

\* C3 holds of every key that "if key:" lets through.
C3_GetOutcomes_TrueKeys ==
    [][(last'.op = "get" /\ Connected(last'.c) /\ Truthy(last'.key))
       => last'.out = ThreeOutcomes(db, last'.c, last'.key)]_vars

\* a key that was stored, whose entry has lapsed and which is still listed
Lapsed(d, c, key) ==
    /\ <<c, Format(key)>> \in stored
    /\ ~HasEntry(d, c, key)
    /\ Listed(d, c, key)

SameKey(l, m) == l.c = m.c /\ l.key = m.key

\* C4: get on a key never stored raises CacheMiss and changes nothing; get on
\* a stored key whose entry has lapsed raises ExpiredKey and removes exactly
\* that key from the Key Set; a membership test right after is false and a
\* second get raises CacheMiss.
C4_MissAndExpiry ==
    [][/\ (last'.op = "get" /\ Connected(last'.c)
           /\ <<last'.c, Format(last'.key)>> \notin stored)
          => (last'.out = CacheMissException /\ db' = db)
       /\ (last'.op = "get" /\ Connected(last'.c) /\ Lapsed(db, last'.c, last'.key))
          => /\ last'.out = ExpiredKeyException
             /\ KeySet(db', last'.c) = KeySet(db, last'.c) \ {Format(last'.key)}
             /\ \A n \in DOMAIN db : n # get_set_name(cache[last'.c]) =>
                    (n \in DOMAIN db' /\ db'[n] = db[n])
       /\ (last.op = "get" /\ last.out = ExpiredKeyException
           /\ last'.op = "contains" /\ SameKey(last, last'))
          => last'.out = Return(PyInt("0"))
       /\ (last.op = "get" /\ last.out = ExpiredKeyException
           /\ last'.op = "get" /\ SameKey(last, last'))
          => last'.out = CacheMissException]_vars

\* C4 holds of every key that "if key:" lets through.
C4_MissAndExpiry_TrueKeys ==
    [][/\ (last'.op = "get" /\ Connected(last'.c) /\ Truthy(last'.key)
           /\ <<last'.c, Format(last'.key)>> \notin stored)
          => (last'.out = CacheMissException /\ db' = db)
       /\ (last'.op = "get" /\ Connected(last'.c) /\ Truthy(last'.key)
           /\ Lapsed(db, last'.c, last'.key))
          => /\ last'.out = ExpiredKeyException
             /\ KeySet(db', last'.c) = KeySet(db, last'.c) \ {Format(last'.key)}
             /\ \A n \in DOMAIN db : n # get_set_name(cache[last'.c]) =>
                    (n \in DOMAIN db' /\ db'[n] = db[n])
       /\ (last.op = "get" /\ last.out = ExpiredKeyException
           /\ last'.op = "contains" /\ SameKey(last, last'))
          => last'.out = Return(PyInt("0"))
       /\ (last.op = "get" /\ last.out = ExpiredKeyException
           /\ last'.op = "get" /\ SameKey(last, last'))
          => last'.out = CacheMissException]_vars

\* C5: for a single client, after flush() returns the cache length is 0 and
\* get on every key stored before the flush raises CacheMiss until a new
\* store of that key.
C5_AfterFlush ==
    [][/\ (last'.op = "flush" /\ Returned(last'))
          => len_result(db', cache[last'.c]) = ReturnInt(0)
       /\ (last'.op = "get" /\ Connected(last'.c)
           /\ <<last'.c, Format(last'.key)>> \in stored \ fresh)
          => last'.out = CacheMissException]_vars

\* C5 holds of every key that "if key:" lets through.
C5_AfterFlush_TrueKeys ==
    [][/\ (last'.op = "flush" /\ Returned(last'))
          => len_result(db', cache[last'.c]) = ReturnInt(0)
       /\ (last'.op = "get" /\ Connected(last'.c) /\ Truthy(last'.key)
           /\ <<last'.c, Format(last'.key)>> \in stored \ fresh)
          => last'.out = CacheMissException]_vars

CacheOps == {"store", "get", "contains", "len", "flush"}

\* C7: a cache constructed while the store is unreachable is in degraded mode
\* (connection absent); every later store, get, membership test, length and
\* flush on it completes without raising, and the status never changes.
C7_DegradedNeverRaises ==
    [][\A c \in DOMAIN cache : ~Connected(c) =>
          /\ ~cache'[c].connection
          /\ (last'.c = c /\ last'.op \in CacheOps) => Returned(last')]_vars

\* the part of C7 the code keeps: the connection is read once, at construction
C7_ConnectionFixed ==
    [][\A c \in DOMAIN cache : cache'[c].connection = cache[c].connection]_vars
\* ------------------------------------------- two caches sharing one store
\* Namespaces are any non-empty strings or non-zero integers, keys any
\* strings: these are chosen so that the formatted names can overlap.
Namespaces == {PyInt("1"), PyStr("2"), PyStr("1:b")}
NSKeys == {PyStr("a"), PyStr("b-keys")}
NSValues == {PyStr("1")}

\* SimpleCache(limit, namespace="1") and SimpleCache(limit, namespace=N2) have
\* been constructed, N2 # "1", against the same empty, reachable store.
InitNS ==
    /\ db = EmptyDb
    /\ \E N2 \in Namespaces, limit \in 1..MaxLimit :
          /\ N2 # PyStr("1")
          /\ cache = [c \in {"c1", "c2"} |->
                        SimpleCache(limit, IF c = "c1" THEN PyStr("1") ELSE N2,
                                    FALSE, TRUE)]
    /\ calls = 0
    /\ last = Nothing
    /\ stored = {}
    /\ fresh = {}
    /\ computed = {}
    /\ proc = NoClients

NextNS ==
    \/ \E c \in DOMAIN cache, key \in NSKeys, value \in NSValues : store(c, key, value)
    \/ \E c \in DOMAIN cache, key \in NSKeys : get(c, key)
    \/ \E c \in DOMAIN cache, key \in NSKeys : contains(c, key)
    \/ \E c \in DOMAIN cache : len(c)
    \/ \E c \in DOMAIN cache : flush(c)
    \/ \E name \in DOMAIN db : Lapse(name)

SpecNS == InitNS /\ [][NextNS]_vars

\* what a cache can observe of the store: each key's entry, and its Key Set
Entry(d, c, key) ==
    IF Exists(d, make_key(cache[c], key)) THEN d[make_key(cache[c], key)]
    ELSE SetRec({})
View(d, c) ==
    [entries |-> [key \in NSKeys |-> Entry(d, c, key)],
     keyset |-> IF Exists(d, get_set_name(cache[c])) THEN d[get_set_name(cache[c])]
                ELSE SetRec({})]

\* C6: for two caches with distinct namespace identifiers sharing one store,
\* no get in one returns a value stored through the other, no membership test
\* or length in one reflects a key stored through the other, and no operation
\* in one changes an entry or the Key Set of the other.
C6_NamespaceIsolation ==
    [][\A c \in DOMAIN cache :
          /\ (last'.c = c /\ last'.op = "get" /\ Returned(last'))
             => <<c, Format(last'.key)>> \in stored
          /\ (last'.c = c /\ last'.op = "contains" /\ Returned(last')
              /\ Truthy(last'.out.v))
             => <<c, Format(last'.key)>> \in stored
          /\ (last'.c = c /\ last'.op = "len" /\ Returned(last'))
             => last'.out.n <= Cardinality({ p \in stored : p[1] = c })
          /\ (last'.c # c /\ last'.op \in CacheOps)
             => View(db', c) = View(db, c)]_vars

\* C6 holds when neither formatted namespace is a prefix of the other
C6_WhenNamesDoNotOverlap ==
    [][\A c \in DOMAIN cache :
          ({Format(cache[x].unique) : x \in DOMAIN cache} = {"1", "2"}
           /\ last'.c # c /\ last'.op \in CacheOps)
          => View(db', c) = View(db, c)]_vars
\* ------------------------------------------------------------ serialization
\* The values the wrapped function takes and returns.
ArgVals == {PyTuple("1, 2"), PyList("1, 2"), PyInt("3")}

\* the wrapped function: pure, here the identity
F(x) == x

\* pickle.dumps: one text per value, the type kept
PickleDumps(x) == "pickle<" \o x.t \o " " \o x.r \o ">"
PickleLoads(s) == CHOOSE x \in ArgVals : PickleDumps(x) = s
\* pickle.dumps(args) of the call's argument tuple (x,)
PickleDumpsArgs(x) == "pickle<tuple " \o PickleDumps(x) \o ",>"

base64_b64encode(s) == "b64<" \o s \o ">"
base64_b64decode(s) ==
    CHOOSE t \in { PickleDumps(x) : x \in ArgVals } : base64_b64encode(t) = s

\* json.dumps: a tuple and a list are both written as a JSON array
JsonDumps(x) ==
    CASE x.t \in {"tuple", "list"} -> "[" \o x.r \o "]"
      [] IsString(x) -> "\"" \o x.r \o "\""
      [] x.t = "NoneType" -> "null"
      [] OTHER -> x.r
\* json.loads: a JSON array is read as a list
JsonLoads(s) ==
    CHOOSE x \in { v \in ArgVals : v.t # "tuple" } : JsonDumps(x) = s
\* json.dumps(args) of the call's argument tuple (x,)
JsonDumpsArgs(x) == "[" \o JsonDumps(x) \o "]"

\* hashlib.md5(..).hexdigest(): one digest per text (no two of the texts of
\* this model collide)
Md5(s) == "md5<" \o s \o ">"

\* ------------------------------------------------- store_* / get_* (134-157)
store_pickle_results(d, cc, key, value, fault) ==
    store_results(d, cc, key, PyStr(base64_b64encode(PickleDumps(value))), fault)

store_json_results(d, cc, key, value, fault) ==
    store_results(d, cc, key, PyStr(JsonDumps(value)), fault)

\* a get that returned: the value decoded; a get that raised: as it is
get_pickle_result(d, cc, key, fault) ==
    LET g == get_result(d, cc, key, fault) IN
    IF g.out.kind = "return"
    THEN [db |-> g.db, out |-> Return(PickleLoads(base64_b64decode(g.out.v.r)))]
    ELSE g

get_json_result(d, cc, key, fault) ==
    LET g == get_result(d, cc, key, fault) IN
    IF g.out.kind = "return"
    THEN [db |-> g.db, out |-> Return(JsonLoads(g.out.v.r))]
    ELSE g

\* ------------------------------------------------- the memoization wrappers
FunctionName == "f"

\* '%s:%s' % (function.__name__, key), key the digest of the dumped arguments
\* when cache.hashkeys, else the dump itself
pickle_cache_key(cc, x) ==
    PyStr(FunctionName \o ":" \o
          (IF cc.hashkeys THEN Md5(PickleDumpsArgs(x)) ELSE PickleDumpsArgs(x)))

json_cache_key(cc, x) ==
    PyStr(FunctionName \o ":" \o
          (IF cc.hashkeys THEN Md5(JsonDumpsArgs(x)) ELSE JsonDumpsArgs(x)))

\* (a wrapper that never takes the degraded path)
Degraded_Never(cc) == FALSE

\* "if cache.connection is None" (lines 219, 260)
Degraded(cc) == ~cc.connection

\* what a call of the wrapper ends in
Call(d, out, invoked, ops, popped, failed) ==
    [db |-> d, out |-> out, invoked |-> invoked, ops |-> ops, popped |-> popped,
     failed |-> failed]

\* result = function(*args); cache.store_*(cache_key, result); return result
\* (lines 239-241, 280-282): an error of the store call is not caught
ComputeAndStore(stores, x, ops, failed) ==
    { Call(w.db, IF w.out.kind = "raise" THEN w.out ELSE Return(F(x)), 1,
           ops \cup {"store"}, w.popped, failed \/ w.out = RedisError) :
      w \in stores }

\* cache_it.func (lines 217-241): the read is inside try; CacheMiss and
\* ExpiredKey are passed over and any other error is logged
cache_it_results(d, cc, x, fault) ==
    LET cache_key == pickle_cache_key(cc, x)
        g == get_pickle_result(d, cc, cache_key, fault) IN
    IF Degraded(cc) THEN {Call(d, Return(F(x)), 1, {}, <<>>, FALSE)}
    ELSE IF g.out.kind = "return" THEN {Call(g.db, g.out, 0, {"get"}, <<>>, FALSE)}
    ELSE ComputeAndStore(store_pickle_results(g.db, cc, cache_key, F(x), fault),
                         x, {"get"}, g.out = RedisError)

\* cache_it_json.func (lines 258-282): "cache_key in cache" is outside try
cache_it_json_results(d, cc, x, fault) ==
    LET cache_key == json_cache_key(cc, x)
        member == contains_result(d, cc, cache_key, fault)
        g == get_json_result(d, cc, cache_key, fault) IN
    IF Degraded(cc) THEN {Call(d, Return(F(x)), 1, {}, <<>>, FALSE)}
    ELSE IF member.kind = "raise"
    THEN {Call(d, member, 0, {"contains"}, <<>>, member = RedisError)}
    ELSE IF ~Truthy(member.v)
    THEN ComputeAndStore(store_json_results(d, cc, cache_key, F(x), fault),
                         x, {"contains"}, FALSE)
    ELSE IF g.out.kind = "return"
    THEN {Call(g.db, g.out, 0, {"contains", "get"}, <<>>, FALSE)}
    ELSE ComputeAndStore(store_json_results(g.db, cc, cache_key, F(x), fault),
                         x, {"contains", "get"}, g.out = RedisError)

\* the Redis command that fails during a call, if any
Faults == {NoFault, "get", "sismember", "scard"}

Wrapped(op, c, x, cache_key, r) ==
    /\ calls + r.invoked <= MaxCalls
    /\ db' = r.db
    /\ calls' = calls + r.invoked
    /\ last' = [Done(op, c, x, None, r.out, r.invoked, r.ops, r.popped)
                  EXCEPT !.failed = r.failed]
    /\ stored' = IF "store" \in r.ops THEN Written(c, cache_key, r.out, stored)
                 ELSE stored
    /\ fresh' = IF "store" \in r.ops THEN Written(c, cache_key, r.out, fresh)
                ELSE fresh
    /\ computed' = IF r.invoked = 1 THEN computed \cup {<<op, x>>} ELSE computed
    /\ UNCHANGED <<cache, proc>>

cache_it(c, x, fault) ==
    \E r \in cache_it_results(db, cache[c], x, fault) :
        Wrapped("cache_it", c, x, pickle_cache_key(cache[c], x), r)

cache_it_json(c, x, fault) ==
    \E r \in cache_it_json_results(db, cache[c], x, fault) :
        Wrapped("cache_it_json", c, x, json_cache_key(cache[c], x), r)

\* One SimpleCache(limit, namespace="n", hashkeys=..) has been constructed,
\* the store reachable or not, and handed to both decorators as cache=.
InitMemo ==
    /\ db = EmptyDb
    /\ \E limit \in 1..MaxLimit, hashkeys \in BOOLEAN, reachable \in BOOLEAN :
           cache = [c \in {"c1"} |-> SimpleCache(limit, PyStr("n"), hashkeys, reachable)]
    /\ calls = 0
    /\ last = Nothing
    /\ stored = {}
    /\ fresh = {}
    /\ computed = {}
    /\ proc = NoClients

NextMemo ==
    \/ \E c \in DOMAIN cache, x \in ArgVals, fault \in Faults : cache_it(c, x, fault)
    \/ \E c \in DOMAIN cache, x \in ArgVals, fault \in Faults : cache_it_json(c, x, fault)
    \/ \E c \in DOMAIN cache : flush(c)
    \/ \E c \in DOMAIN cache : expire_all_in_set(c)
    \/ \E name \in DOMAIN db : Lapse(name)

SpecMemo == InitMemo /\ [][NextMemo]_vars

Wrappers == {"cache_it", "cache_it_json"}

\* C8: with the cache in degraded mode, every call through either wrapper
\* invokes the wrapped function exactly once, returns its result, and issues
\* no store or get against the cache.
C8_DegradedBypass ==
    (last.op \in Wrappers /\ ~Connected(last.c)) =>
        /\ last.invoked = 1
        /\ last.out = Return(F(last.key))
        /\ last.ops = {}

\* both wrappers have been called on a degraded cache
C8_Witness ==
    /\ last.op = "cache_it_json" /\ ~Connected(last.c)
    /\ <<"cache_it", PyTuple("1, 2")>> \in computed
    /\ calls = 2
\* the cache key a wrapper derives from the argument, and whether it has a
\* live entry
WrapperKey(op, cc, x) ==
    IF op = "cache_it" THEN pickle_cache_key(cc, x) ELSE json_cache_key(cc, x)
LiveEntry(d, c, op, x) == HasEntry(d, c, WrapperKey(op, cache[c], x))

\* what C9 says of one call, made in keyspace d and ending in keyspace e
Memoized(d, e, before, l) ==
    LET live == LiveEntry(d, l.c, l.op, l.key) IN
    /\ l.invoked = (IF live THEN 0 ELSE 1)
    /\ l.out = Return(F(l.key))
    /\ ~live => LiveEntry(e, l.c, l.op, l.key)
    /\ <<l.op, l.key>> \notin before => l.invoked = 1

\* C9: through either wrapper on a connected cache, a call whose key has no
\* live entry invokes f once and stores the result; a call with the same
\* arguments while the entry is live returns the identical result without
\* invoking f; a call with arguments f was not yet invoked for invokes f.
\* The invocations of f are the calls whose key had no live entry.
C9_Memoization ==
    [][(last'.op \in Wrappers /\ Connected(last'.c) /\ ~last'.failed)
       => (Memoized(db, db', computed, last') /\ calls' = calls + last'.invoked)]_vars

\* C9 holds of cache_it, the pickle variant
C9_Memoization_Pickle ==
    [][(last'.op = "cache_it" /\ Connected(last'.c) /\ ~last'.failed)
       => (Memoized(db, db', computed, last') /\ calls' = calls + last'.invoked)]_vars

\* C9 holds of cache_it_json while no tuple is passed or returned
C9_Memoization_JsonNoTuple ==
    [][(/\ last'.op = "cache_it_json" /\ Connected(last'.c) /\ ~last'.failed
        /\ \A p \in computed \cup {<<last'.op, last'.key>>} :
              p[1] = "cache_it_json" => p[2].t # "tuple")
       => (Memoized(db, db', computed, last') /\ calls' = calls + last'.invoked)]_vars

\* C10: on a connected cache, a call through either wrapper during which a
\* backing-store command fails (the membership pre-check, the read, or the
\* write of the result) still returns the wrapped function's result, and no
\* store-layer error reaches the caller.
C10_StoreFailureIsMiss ==
    (last.op \in Wrappers /\ Connected(last.c) /\ last.failed) =>
        /\ Returned(last)
        /\ last.invoked = 1
        /\ last.out = Return(F(last.key))

\* the part of C10 the code keeps: a failed read inside try is a miss
C10_FailedReadIsMiss ==
    (/\ last.op \in Wrappers /\ Connected(last.c) /\ last.failed
     /\ Returned(last)) =>
        /\ last.invoked = 1
        /\ "get" \in last.ops
        /\ last.out = Return(F(last.key))

\* ------------------------------------------------- eviction by one client
\* the entry under a key text, as the keyspace holds it (absent: no entry)
EntryOf(d, c, member) == Entry(d, c, PyStr(member))

\* what C11 says of one store made in keyspace d and ending in keyspace e:
\* one resident key j was popped, its entry is gone, every other resident key
\* is still listed with the entry it had, the new key is listed with its
\* value, and the Key Set is exactly full.
EvictsOne(d, e, l) ==
    LET S == KeySet(d, l.c)
        j == l.popped[1] IN
    /\ Len(l.popped) = 1
    /\ j \in S
    /\ ~Exists(e, make_key(cache[l.c], PyStr(j)))
    /\ KeySet(e, l.c) = (S \ {j}) \cup {Format(l.key)}
    /\ \A m \in S \ {j} : EntryOf(e, l.c, m) = EntryOf(d, l.c, m)
    /\ HasEntry(e, l.c, l.key)
    /\ e[make_key(cache[l.c], l.key)].val = Format(l.val)
    /\ Cardinality(KeySet(e, l.c)) = cache[l.c].limit

\* a store of a key that is not resident into a cache that is exactly full
StoresNewKeyWhenFull(d, l) ==
    /\ l.op = "store" /\ Returned(l)
    /\ Cardinality(KeySet(d, l.c)) = cache[l.c].limit
    /\ ~Listed(d, l.c, l.key)

\* a get of a key that the store completed just before has evicted
GetsEvicted(l, m) ==
    /\ l.op = "store" /\ Returned(l)
    /\ m.op = "get" /\ m.c = l.c
    /\ Format(m.key) # Format(l.key)
    /\ \E i \in 1..Len(l.popped) : l.popped[i] = Format(m.key)

\* C11: for a single client, storing a new key into a cache whose Key Set is
\* exactly full evicts exactly one resident key, deletes that key's entry,
\* keeps every other resident key and its entry, leaves the new key resident
\* and the cardinality equal to capacity; a get on the evicted key that
\* follows raises CacheMiss or ExpiredKey and does not return the old value.
C11_EvictOne ==
    [][/\ StoresNewKeyWhenFull(db, last') => EvictsOne(db, db', last')
       /\ GetsEvicted(last, last')
          => last'.out \in {CacheMissException, ExpiredKeyException}]_vars

\* C11 holds when the evicted key is one that "if key:" lets through
C11_EvictOne_TrueKeys ==
    [][/\ StoresNewKeyWhenFull(db, last') => EvictsOne(db, db', last')
       /\ (GetsEvicted(last, last') /\ Truthy(last'.key))
          => last'.out \in {CacheMissException, ExpiredKeyException}]_vars

\* the store part of C11 alone has happened: capacity 2, two residents, a
\* third key stored
C11_StoredIntoFull ==
    /\ last.op = "store" /\ Returned(last)
    /\ Len(last.popped) = 1
    /\ cache[last.c].limit = 2
    /\ Format(last.key) \notin {last.popped[1]}
    /\ Cardinality(KeySet(db, last.c)) = 2

\* ------------------------------------------------------------- bulk expiry
\* the listed keys of a cache whose entry is live
LiveListed(d, c) == { m \in KeySet(d, c) : HasEntry(d, c, PyStr(m)) }

\* C12: with no concurrent operation, expire_all_in_set() on a connected cache
\* expires the entry of every key that is in the Key Set when it is called and
\* returns (n, e), n the number of keys in the Key Set and e the number of
\* them whose entry was live; e <= n, and e < n exactly when a listed key had
\* lapsed already; afterwards no key of the namespace has a live entry.
C12_ExpireAll ==
    [][(last'.op = "expire_all_in_set" /\ Connected(last'.c)) =>
         LET S == KeySet(db, last'.c) IN
         /\ last'.out = ReturnPair(Cardinality(S), Cardinality(LiveListed(db, last'.c)))
         /\ last'.out.e <= last'.out.n
         /\ (last'.out.e < last'.out.n) <=> (\E m \in S : ~HasEntry(db, last'.c, PyStr(m)))
         /\ \A m \in S : ~Exists(db', make_key(cache[last'.c], PyStr(m)))
         /\ \A name \in DOMAIN db' : ~HoldsString(db', name)]_vars

\* expire_all_in_set has answered (2, 1): two keys listed, one of them lapsed
C12_Witness ==
    /\ last.op = "expire_all_in_set" /\ Returned(last)
    /\ last.out.n = 2 /\ last.out.e = 1

\* whether "key in cache" answers false for the key text m in keyspace d
NotMember(d, c, m) ==
    contains_result(d, cache[c], PyStr(m), NoFault) = Return(PyInt("0"))
IsMember(d, c, m) ==
    contains_result(d, cache[c], PyStr(m), NoFault) = Return(PyInt("1"))

BulkOps == {"expire_all_in_set", "flush"}

\* C13: both bulk operations remove keys from the Key Set eagerly: after
\* expire_all_in_set() has returned with no concurrent operation, as after
\* flush(), the cache length is 0 and a membership test on each key that was
\* listed answers false, without any get in between.
C13_EagerRemoval ==
    [][(last'.op \in BulkOps /\ Returned(last')) =>
         /\ len_result(db', cache[last'.c]) = ReturnInt(0)
         /\ \A m \in KeySet(db, last'.c) : NotMember(db', last'.c, m)]_vars

\* C13 as the code has it: flush() removes the keys eagerly (length 0, every
\* membership test false); expire_all_in_set() leaves the Key Set exactly as
\* it was (the length it returns, every membership test still true), so its
\* keys leave the Key Set only later, lazily.
C13_FlushEagerExpireLazy ==
    [][/\ (last'.op = "flush" /\ Returned(last')) =>
            /\ len_result(db', cache[last'.c]) = ReturnInt(0)
            /\ \A m \in KeySet(db, last'.c) : NotMember(db', last'.c, m)
       /\ (last'.op = "expire_all_in_set" /\ Returned(last')) =>
            /\ KeySet(db', last'.c) = KeySet(db, last'.c)
            /\ len_result(db', cache[last'.c]) = ReturnInt(last'.out.n)
            /\ \A m \in KeySet(db, last'.c) :
                  IsMember(db', last'.c, m) /\ ~HasEntry(db', last'.c, PyStr(m))]_vars

\* expire_all_in_set has expired two live entries and both keys are listed
C13_Witness ==
    /\ last.op = "expire_all_in_set" /\ Returned(last)
    /\ last.out.e = 2
    /\ Cardinality(KeySet(db, last.c)) = 2

\* -------------------------------------------- store of a resident key
\* every name of the keyspace other than those in names holds in e what it
\* held in d
SameExcept(d, e, names) ==
    \A n \in (DOMAIN d \cup DOMAIN e) \ names :
        n \in DOMAIN d /\ n \in DOMAIN e /\ d[n] = e[n]

\* key is listed in e and its entry holds the text of val
ResidentWith(e, c, key, val) ==
    /\ Listed(e, c, key)
    /\ HasEntry(e, c, key)
    /\ e[make_key(cache[c], key)].val = Format(val)

\* C20: for a single client, store(k, v) on a key k already resident in a full
\* cache pops exactly one member j and deletes its entry; afterwards k is
\* resident with value v, and either j is k (cardinality stays at capacity,
\* every other key and entry kept) or j is another key (j and its entry are
\* gone, cardinality is capacity - 1).  When cardinality < capacity,
\* store(k, v) pops nothing and changes only k's entry and k's membership.
C20_StoreIgnoresResidency ==
    [][(last'.op = "store" /\ Returned(last')) =>
         LET c == last'.c
             k == last'.key
             S == KeySet(db, c)
             j == last'.popped[1]
             set_name == get_set_name(cache[c])
             name(m) == make_key(cache[c], PyStr(m)) IN
         /\ (Listed(db, c, k) /\ Cardinality(S) = cache[c].limit) =>
              /\ Len(last'.popped) = 1 /\ j \in S
              /\ ResidentWith(db', c, k, last'.val)
              /\ j = Format(k) =>
                   /\ KeySet(db', c) = S
                   /\ SameExcept(db, db', {name(j)})
              /\ j # Format(k) =>
                   /\ KeySet(db', c) = S \ {j}
                   /\ Cardinality(KeySet(db', c)) = cache[c].limit - 1
                   /\ ~Exists(db', name(j))
                   /\ SameExcept(db, db', {name(j), name(Format(k)), set_name})
         /\ Cardinality(S) < cache[c].limit =>
              /\ last'.popped = <<>>
              /\ ResidentWith(db', c, k, last'.val)
              /\ KeySet(db', c) = S \cup {Format(k)}
              /\ SameExcept(db, db', {name(Format(k)), set_name})]_vars

\* a store of a resident key into a full cache of capacity 2 has popped
\* another key and left the cache below capacity
C20_Witness ==
    /\ last.op = "store" /\ Returned(last)
    /\ cache[last.c].limit = 2
    /\ Len(last.popped) = 1
    /\ last.popped[1] # Format(last.key)
    /\ KeySet(db, last.c) = {Format(last.key)}

\* a store of a resident key into a full cache has popped that very key
C20_PoppedItself ==
    /\ last.op = "store" /\ Returned(last)
    /\ cache[last.c].limit = 2
    /\ last.popped = <<Format(last.key)>>
    /\ Cardinality(KeySet(db, last.c)) = 2

\* ------------------------------ concurrent clients, one command at a time
\* Each client is a process that has constructed its own SimpleCache on the
\* same namespace, with the same limit, and issues at most MaxOps calls.  One
\* step of a client is one Redis command, or the execute of one pipeline,
\* together with the local work that leads to it; Redis serves the commands
\* one at a time.  pc names the command the client issues next.
MaxOps == 2
Clients == {"p1", "p2"}
ConKeys == {PyStr("a"), PyStr("b")}
ConValues == {PyStr("1")}

\* A client between two calls.  card0, solo and steps are history: the
\* cardinality of the Key Set when the call began, whether no other client
\* has been inside a call since, and the steps the call has taken.
Idle(left) ==
    [pc |-> "idle", op |-> "", key |-> None, val |-> None, del_key |-> None,
     members |-> {}, expired |-> 0, popped |-> <<>>, card0 |-> 0, solo |-> TRUE,
     steps |-> 0, left |-> left]

\* the locals of client p as it enters op(key, val)
Called(p, op, key, val) ==
    [Idle(proc[p].left - 1) EXCEPT
        !.op = op, !.key = key, !.val = val,
        !.card0 = Cardinality(Members(db, get_set_name(cache[p]))),
        !.solo = \A q \in Clients \ {p} : proc[q].pc = "idle"]

\* proc after a step of client p that leaves it as pr; began: the step is
\* the first of a call
Stepped(p, pr, began) ==
    [q \in Clients |->
        IF q = p THEN [pr EXCEPT !.steps = IF pr.pc = "idle" THEN 0 ELSE @ + 1]
        ELSE IF began /\ proc[q].pc # "idle" THEN [proc[q] EXCEPT !.solo = FALSE]
        ELSE proc[q]]

\* the call of client p goes on as pr
GoOn(p, pr, began) ==
    /\ proc' = Stepped(p, pr, began)
    /\ last' = last

\* the call of client p ends with out
Complete(p, pr, out, began) ==
    /\ proc' = Stepped(p, Idle(pr.left), began)
    /\ last' = Done(pr.op, p, pr.key, pr.val, out, 0, {pr.op}, pr.popped)

\* what a command on the Key Set raises, if it does
SetCommandError(d, cc) ==
    IF ~cc.connection THEN AttributeError
    ELSE IF WrongTypeForSet(d, get_set_name(cc)) THEN RedisError
    ELSE Return(None)

\* line 97: scard(set_name) >= self.limit
Scard(p, pr, began) ==
    LET err == SetCommandError(db, cache[p]) IN
    /\ IF err.kind = "raise" THEN Complete(p, pr, err, began)
       ELSE GoOn(p, [pr EXCEPT !.pc = IF AtCapacity(db, cache[p]) THEN "spop"
                                      ELSE "execute"], began)
    /\ UNCHANGED <<db, cache, calls, stored, fresh, computed>>

CanCall(p) == proc[p].pc = "idle" /\ proc[p].left > 0

call_store(p, key, value) ==
    /\ CanCall(p)
    /\ Scard(p, Called(p, "store", key, value), TRUE)

store_scard(p) ==
    /\ proc[p].pc = "scard"
    /\ Scard(p, proc[p], FALSE)

\* what spop answers: any member, or None when the set is empty
SpopAnswers(d, n) ==
    IF Members(d, n) = {} THEN {None} ELSE { PyStr(m) : m \in Members(d, n) }

\* line 98: del_key = spop(set_name)
store_spop(p) ==
    LET err == SetCommandError(db, cache[p])
        set_name == get_set_name(cache[p]) IN
    /\ proc[p].pc = "spop"
    /\ IF err.kind = "raise" THEN db' = db /\ Complete(p, proc[p], err, FALSE)
       ELSE \E del_key \in SpopAnswers(db, set_name) :
              /\ db' = IF del_key = None THEN db
                       ELSE RemoveMember(db, set_name, Format(del_key))
              /\ GoOn(p, [proc[p] EXCEPT !.pc = "delete", !.del_key = del_key,
                                         !.popped = Append(@, Format(del_key))],
                      FALSE)
    /\ UNCHANGED <<cache, calls, stored, fresh, computed>>

\* (an "if" in place of the "while": after one eviction the store writes)
store_delete_Once(p) ==
    /\ proc[p].pc = "delete"
    /\ db' = Delete(db, make_key(cache[p], proc[p].del_key))
    /\ GoOn(p, [proc[p] EXCEPT !.pc = "execute"], FALSE)
    /\ UNCHANGED <<cache, calls, stored, fresh, computed>>

\* line 99: delete(make_key(del_key))
store_delete(p) ==
    /\ proc[p].pc = "delete"
    /\ db' = Delete(db, make_key(cache[p], proc[p].del_key))
    /\ GoOn(p, [proc[p] EXCEPT !.pc = "scard"], FALSE)
    /\ UNCHANGED <<cache, calls, stored, fresh, computed>>

\* lines 101-106: the pipeline, executed as one
store_execute(p) ==
    LET w == StorePipeline(db, cache[p], to_unicode(proc[p].key),
                           to_unicode(proc[p].val)) IN
    /\ proc[p].pc = "execute"
    /\ db' = w.db
    /\ Complete(p, proc[p], w.out, FALSE)
    /\ stored' = Written(p, proc[p].key, w.out, stored)
    /\ fresh' = Written(p, proc[p].key, w.out, fresh)
    /\ UNCHANGED <<cache, calls, computed>>

\* lines 141-146 and 151: value = get(make_key(key))
call_get(p, key) ==
    LET pr == Called(p, "get", key, None)
        name == make_key(cache[p], to_unicode(key)) IN
    /\ CanCall(p)
    /\ IF ~Truthy(to_unicode(key)) THEN Complete(p, pr, Return(None), TRUE)
       ELSE IF ~cache[p].connection THEN Complete(p, pr, AttributeError, TRUE)
       ELSE IF WrongTypeForString(db, name) THEN Complete(p, pr, RedisError, TRUE)
       ELSE IF Exists(db, name)
       THEN Complete(p, pr, Return(PyStr(db[name].val)), TRUE)
       ELSE GoOn(p, [pr EXCEPT !.pc = "sismember"], TRUE)
    /\ UNCHANGED <<db, cache, calls, stored, fresh, computed>>

\* line 145: if not key in self: raise CacheMissException
get_sismember(p) ==
    LET member == contains_result(db, cache[p], to_unicode(proc[p].key), NoFault) IN
    /\ proc[p].pc = "sismember"
    /\ IF member.kind = "raise" THEN Complete(p, proc[p], member, FALSE)
       ELSE IF ~Truthy(member.v) THEN Complete(p, proc[p], CacheMissException, FALSE)
       ELSE GoOn(p, [proc[p] EXCEPT !.pc = "srem"], FALSE)
    /\ UNCHANGED <<db, cache, calls, stored, fresh, computed>>

\* (a get that, after the srem, tests the membership once more before it
\* raises)
get_srem_Rechecks(p) ==
    /\ proc[p].pc = "srem"
    /\ db' = RemoveMember(db, get_set_name(cache[p]), Format(proc[p].key))
    /\ GoOn(p, [proc[p] EXCEPT !.pc = "sismember"], FALSE)
    /\ UNCHANGED <<cache, calls, stored, fresh, computed>>

\* lines 148-149: srem(set_name, key); raise ExpiredKeyException
get_srem(p) ==
    LET err == SetCommandError(db, cache[p]) IN
    /\ proc[p].pc = "srem"
    /\ IF err.kind = "raise" THEN db' = db /\ Complete(p, proc[p], err, FALSE)
       ELSE /\ db' = RemoveMember(db, get_set_name(cache[p]), Format(proc[p].key))
            /\ Complete(p, proc[p], ExpiredKeyException, FALSE)
    /\ UNCHANGED <<cache, calls, stored, fresh, computed>>

\* line 197: keys = self.keys()
call_flush(p) ==
    LET pr == Called(p, "flush", None, None)
        err == SetCommandError(db, cache[p]) IN
    /\ CanCall(p)
    /\ IF err.kind = "raise" THEN Complete(p, pr, err, TRUE)
       ELSE GoOn(p, [pr EXCEPT !.pc = "flush_execute",
                               !.members = Members(db, get_set_name(cache[p]))],
                 TRUE)
    /\ UNCHANGED <<db, cache, calls, stored, fresh, computed>>

\* lines 198-202: the deletes of the keys read, and of the Key Set, as one
flush_execute(p) ==
    /\ proc[p].pc = "flush_execute"
    /\ db' = Delete(DeleteAll(db, { make_key(cache[p], PyStr(del_key)) :
                                    del_key \in proc[p].members }),
                    get_set_name(cache[p]))
    /\ Complete(p, proc[p], Return(None), FALSE)
    /\ fresh' = { w \in fresh : w[1] # p }
    /\ UNCHANGED <<cache, calls, stored, computed>>

\* lines 116-118: all_members = self.keys(); expired = 0
call_expire_all_in_set(p) ==
    LET pr == Called(p, "expire_all_in_set", None, None)
        err == SetCommandError(db, cache[p])
        all_members == Members(db, get_set_name(cache[p])) IN
    /\ CanCall(p)
    /\ IF err.kind = "raise" THEN Complete(p, pr, err, TRUE)
       ELSE GoOn(p, [pr EXCEPT !.pc = IF all_members = {} THEN "len" ELSE "expire",
                               !.members = all_members], TRUE)
    /\ UNCHANGED <<db, cache, calls, stored, fresh, computed>>

\* lines 119-122: one turn of the loop, on a member not yet visited (a set is
\* iterated in no specified order)
expire_member(p) ==
    /\ proc[p].pc = "expire"
    /\ \E member \in proc[p].members :
          LET name == make_key(cache[p], PyStr(member))
              res == Exists(db, name)
              rest == proc[p].members \ {member} IN
          /\ db' = Delete(db, name)
          /\ GoOn(p, [proc[p] EXCEPT !.pc = IF rest = {} THEN "len" ELSE "expire",
                                     !.members = rest,
                                     !.expired = IF res THEN @ + 1 ELSE @],
                  FALSE)
    /\ UNCHANGED <<cache, calls, stored, fresh, computed>>

\* line 123: return self.__len__(), self.expired
expire_len(p) ==
    LET n == len_result(db, cache[p]) IN
    /\ proc[p].pc = "len"
    /\ Complete(p, proc[p],
                IF n.kind = "raise" THEN n ELSE ReturnPair(n.n, proc[p].expired),
                FALSE)
    /\ UNCHANGED <<db, cache, calls, stored, fresh, computed>>

\* The caches of the clients have been constructed against an empty store,
\* which was reachable or not.
InitCon ==
    /\ db = EmptyDb
    /\ \E limit \in 1..MaxLimit, reachable \in BOOLEAN :
           cache = [p \in Clients |-> SimpleCache(limit, PyStr("n"), FALSE, reachable)]
    /\ calls = 0
    /\ last = Nothing
    /\ stored = {}
    /\ fresh = {}
    /\ computed = {}
    /\ proc = [p \in Clients |-> Idle(MaxOps)]

\* the steps that take client p through the call it is in
Step(p) ==
    \/ store_scard(p)
    \/ store_spop(p)
    \/ store_delete(p)
    \/ store_execute(p)
    \/ get_sismember(p)
    \/ get_srem(p)
    \/ flush_execute(p)
    \/ expire_member(p)
    \/ expire_len(p)

NextCon ==
    \/ \E p \in Clients, key \in ConKeys, value \in ConValues : call_store(p, key, value)
    \/ \E p \in Clients : store_scard(p)
    \/ \E p \in Clients : store_spop(p)
    \/ \E p \in Clients : store_delete(p)
    \/ \E p \in Clients : store_execute(p)
    \/ \E p \in Clients, key \in ConKeys : call_get(p, key)
    \/ \E p \in Clients : get_sismember(p)
    \/ \E p \in Clients : get_srem(p)
    \/ \E p \in Clients : call_flush(p)
    \/ \E p \in Clients : flush_execute(p)
    \/ \E p \in Clients : call_expire_all_in_set(p)
    \/ \E p \in Clients : expire_member(p)
    \/ \E p \in Clients : expire_len(p)
    \/ \E name \in DOMAIN db : Lapse(name)

SpecCon == InitCon /\ [][NextCon]_vars

\* Redis answers every command and every client that is inside a call is
\* scheduled again: weak fairness of each client's steps.
\* The clients issue store and get calls only.
NextFair ==
    \/ \E p \in Clients, key \in ConKeys, value \in ConValues : call_store(p, key, value)
    \/ \E p \in Clients : store_scard(p)
    \/ \E p \in Clients : store_spop(p)
    \/ \E p \in Clients : store_delete(p)
    \/ \E p \in Clients : store_execute(p)
    \/ \E p \in Clients, key \in ConKeys : call_get(p, key)
    \/ \E p \in Clients : get_sismember(p)
    \/ \E p \in Clients : get_srem(p)
    \/ \E name \in DOMAIN db : Lapse(name)

SpecFair == InitCon /\ [][NextFair]_vars /\ \A p \in Clients : WF_vars(Step(p))

\* no client is inside a call
Quiescent == \A p \in Clients : proc[p].pc = "idle"

\* max(0, n)
Max0(n) == IF n > 0 THEN n ELSE 0

\* client p is inside a store during which no other client has been inside a
\* call
StoresAlone(p) ==
    /\ proc[p].op = "store" /\ proc[p].pc # "idle"
    /\ proc[p].solo

\* C14: for capacity >= 1 and no concurrent writers the eviction loop of store
\* terminates: from Key Set cardinality c it makes at most
\* max(0, c - capacity + 1) pops, each pop strictly reduces the cardinality,
\* the store always has a next step to take, and its last step completes the
\* write.
C14_EvictionLoopBound ==
    [][\A p \in Clients : StoresAlone(p) =>
          /\ Len(proc[p].popped) <= Max0(proc[p].card0 - cache[p].limit + 1)
          /\ ENABLED Step(p)
          /\ (proc[p].pc = "spop" /\ proc'[p].pc = "delete")
             => Cardinality(KeySet(db', p)) < Cardinality(KeySet(db, p))
          /\ (proc[p].pc = "execute" /\ proc'[p].pc = "idle")
             => /\ last'.op = "store" /\ last'.c = p /\ Returned(last')
                /\ ResidentWith(db', p, proc[p].key, proc[p].val)]_vars

\* a store running alone has popped twice from a Key Set that two concurrent
\* stores had left one above capacity, and is about to write
C14_Witness ==
    \E p \in Clients :
        /\ StoresAlone(p) /\ proc[p].pc = "execute"
        /\ proc[p].card0 = cache[p].limit + 1
        /\ Len(proc[p].popped) = 2

\* C15: for clients running store, get, flush and expire_all_in_set
\* concurrently on one namespace, in every quiescent state every key that has
\* a live entry is a member of the Key Set (the only inconsistency that can
\* persist is a key listed without an entry).
C15_EntriesAreListed ==
    Quiescent =>
        \A p \in Clients, key \in ConKeys : HasEntry(db, p, key) => Listed(db, p, key)

\* what C15 allows does happen: a key is listed without an entry, and no
\* entry has lapsed (the pipeline of a store ran between another store's spop
\* and delete)
C15_ListedWithoutEntry ==
    /\ Quiescent
    /\ \E p \in Clients, key \in ConKeys : Listed(db, p, key) /\ ~HasEntry(db, p, key)

\* the step in which the get of client p removes its key from the Key Set
\* and raises ExpiredKey
RaisesExpiredKey(p) ==
    /\ proc[p].op = "get" /\ proc[p].pc = "srem"
    /\ proc'[p].pc = "idle"
    /\ last'.op = "get" /\ last'.c = p /\ last'.out = ExpiredKeyException

\* C16: in any interleaving of concurrent store and get calls on a key k,
\* whenever get(k) removes k from the Key Set and raises ExpiredKey, k has no
\* live entry at that moment.
C16_ExpiredKeyOnlyWhenLapsed ==
    [][\A p \in Clients :
          RaisesExpiredKey(p) => ~HasEntry(db', p, proc[p].key)]_vars

\* what the code keeps of C16: the key had no entry when the get read it, so
\* a get that runs with no other client inside a call raises ExpiredKey only
\* for a key without a live entry
C16_WhenAlone ==
    [][\A p \in Clients :
          (RaisesExpiredKey(p) /\ proc[p].solo) => ~HasEntry(db', p, proc[p].key)]_vars

\* the number of clients, each running at most one store at a time
W == Cardinality(Clients)

\* the step that completes a store of client p during which no other client
\* has been inside a call
CompletesStoreAlone(p) ==
    /\ StoresAlone(p) /\ proc[p].pc = "execute"
    /\ proc'[p].pc = "idle"

C17_BelowCapacity ==
    /\ Quiescent
    /\ last.op = "store" /\ Returned(last) /\ Len(last.popped) = 1
    /\ cache[last.c].limit = 2
    /\ \A p \in Clients : proc[p].left = 0
    /\ \A p \in Clients : <<p, "a">> \in stored
    /\ Cardinality(KeySet(db, last.c)) = 1

\* client p is inside a call of op
Inside(p, op) == proc[p].op = op /\ proc[p].pc # "idle"

\* a step taken by client p itself
OwnStep(p) == proc'[p].steps # proc[p].steps

\* the commands a get issues at most: get, sismember, srem
GetCommands == 3

\* C18: with finitely many clients each issuing finitely many calls on a
\* cache with capacity >= 1, under weak fairness of every client's steps and
\* with commands that always answer, every started store eventually completes
\* its eviction loop and its write, and every get completes within a bounded
\* number of its own steps whatever the other clients do: it always has a
\* step to take and its third step at the latest ends it.
C18_NoBlocking ==
    /\ \A p \in Clients : Inside(p, "store") ~> (proc[p].pc = "idle")
    /\ [][\A p \in Clients :
             (Inside(p, "store") /\ proc'[p].pc = "idle")
             => (proc[p].pc = "execute" /\ last'.c = p /\ Returned(last'))]_vars
    /\ [](\A p \in Clients :
             Inside(p, "get") => (proc[p].steps < GetCommands /\ ENABLED Step(p)))
    /\ [][\A p \in Clients :
             (Inside(p, "get") /\ OwnStep(p) /\ proc[p].steps = GetCommands - 1)
             => proc'[p].pc = "idle"]_vars

\* a store has completed although, while it was in its eviction loop, the
\* other client emptied the Key Set under it (its spop answered None); and a
\* get is at its last command
C18_Witness ==
    /\ last.op = "store" /\ Returned(last)
    /\ \E i \in 1..Len(last.popped) : last.popped[i] = "None"
    /\ \E p \in Clients : Inside(p, "get") /\ proc[p].pc = "srem"

\* ------------------------------------------- the two wrappers side by side
\* Two caches of the same limit on one store, in namespaces whose names do
\* not overlap: "c1" is handed to cache_it and "c2" to cache_it_json, and
\* every call of the wrapped function is made through both.
InitPair ==
    /\ db = EmptyDb
    /\ \E limit \in 1..MaxLimit, hashkeys \in BOOLEAN, reachable \in BOOLEAN :
           cache = [c \in {"c1", "c2"} |->
                      SimpleCache(limit, IF c = "c1" THEN PyStr("p") ELSE PyStr("j"),
                                  hashkeys, reachable)]
    /\ calls = 0
    /\ last = Nothing
    /\ stored = {}
    /\ fresh = {}
    /\ computed = {}
    /\ proc = NoClients

\* the wrapped function is called with x through cache_it, then with x
\* through cache_it_json
call_both(x) ==
    \E rp \in cache_it_results(db, cache["c1"], x, NoFault) :
    \E rj \in cache_it_json_results(rp.db, cache["c2"], x, NoFault) :
        /\ calls + rp.invoked + rj.invoked <= 2 * MaxCalls
        /\ db' = rj.db
        /\ calls' = calls + rp.invoked + rj.invoked
        /\ last' = [Done("cache_it_json", "c2", x, None, rj.out, rj.invoked, rj.ops,
                         rj.popped) EXCEPT !.failed = rj.failed]
        /\ stored' = LET sp == IF "store" \in rp.ops
                               THEN Written("c1", pickle_cache_key(cache["c1"], x),
                                            rp.out, stored)
                               ELSE stored
                     IN IF "store" \in rj.ops
                        THEN Written("c2", json_cache_key(cache["c2"], x), rj.out, sp)
                        ELSE sp
        /\ fresh' = LET fp == IF "store" \in rp.ops
                              THEN Written("c1", pickle_cache_key(cache["c1"], x),
                                           rp.out, fresh)
                              ELSE fresh
                    IN IF "store" \in rj.ops
                       THEN Written("c2", json_cache_key(cache["c2"], x), rj.out, fp)
                       ELSE fp
        /\ computed' = computed
                       \cup (IF rp.invoked = 1 THEN {<<"cache_it", x>>} ELSE {})
                       \cup (IF rj.invoked = 1 THEN {<<"cache_it_json", x>>} ELSE {})
        /\ UNCHANGED <<cache, proc>>

NextPair ==
    \/ \E x \in ArgVals : call_both(x)
    \/ \E c \in DOMAIN cache : flush(c)
    \/ \E c \in DOMAIN cache : expire_all_in_set(c)
    \/ \E name \in DOMAIN db : Lapse(name)

SpecPair == InitPair /\ [][NextPair]_vars

\* the keys of a cache, among those a wrapper derives from the arguments,
\* whose entry is live
LiveKeys(d, c) ==
    { m \in { Format(WrapperKey(op, cache[c], x)) : op \in Wrappers, x \in ArgVals } :
        HasEntry(d, c, PyStr(m)) }

\* the keys cache_it_json derives from the arguments whose cache_it keys are
\* in S
JsonKeysOf(S) ==
    { Format(json_cache_key(cache["c2"], x)) :
        x \in { y \in ArgVals : Format(pickle_cache_key(cache["c1"], y)) \in S } }

\* The two caches are in corresponding states: key for key, the Key Set of
\* "c2" is that of "c1" and its live entries are those of "c1".
Corresponding(d) ==
    /\ KeySet(d, "c2") = JsonKeysOf(KeySet(d, "c1"))
    /\ Cardinality(KeySet(d, "c2")) = Cardinality(KeySet(d, "c1"))
    /\ LiveKeys(d, "c2") = JsonKeysOf(LiveKeys(d, "c1"))
    /\ Cardinality(LiveKeys(d, "c2")) = Cardinality(LiveKeys(d, "c1"))

\* a call that found its result in the cache
Hit(r) == "get" \in r.ops /\ r.invoked = 0

\* Called with x in keyspace d, whatever one wrapper does the other can do
\* too (the store's choice of the member to pop taken alike): the same
\* hit/miss decision, the wrapped function invoked by both or by neither, and
\* corresponding states afterwards.
SameDecisions(d, x) ==
    LET Agree(rp, rj, e) == /\ rp.invoked = rj.invoked
                            /\ Hit(rp) <=> Hit(rj)
                            /\ Corresponding(e) IN
    /\ \A rp \in cache_it_results(d, cache["c1"], x, NoFault) :
          \E rj \in cache_it_json_results(rp.db, cache["c2"], x, NoFault) :
              Agree(rp, rj, rj.db)
    /\ \A rj \in cache_it_json_results(d, cache["c2"], x, NoFault) :
          \E rp \in cache_it_results(rj.db, cache["c1"], x, NoFault) :
              Agree(rp, rj, rp.db)

\* C19: the membership pre-check of the JSON variant is harmless: started
\* from the same store state and given the same sequence of calls, the two
\* wrappers make the same hit/miss decision on every call, invoke the wrapped
\* function on exactly the same calls, and leave the Key Set and the live
\* entries in corresponding states.
C19_WrappersAgree ==
    Corresponding(db) => \A x \in ArgVals : SameDecisions(db, x)

NoTuples == { x \in ArgVals : x.t # "tuple" }

\* C19 holds while no tuple is passed to the wrapped function
C19_WrappersAgree_NoTuple ==
    (Corresponding(db) /\ \A w \in computed : w[2] \in NoTuples)
    => \A x \in NoTuples : SameDecisions(db, x)

\* corresponding states in which the pre-check matters: both caches are
\* full, and a key is listed in both without a live entry
C19_BothFullOneLapsed ==
    /\ Corresponding(db)
    /\ \A w \in computed : w[2] \in NoTuples
    /\ \A c \in DOMAIN cache : Cardinality(KeySet(db, c)) = 2 /\ cache[c].limit = 2
    /\ Cardinality(LiveKeys(db, "c2")) = 1
====
